---- MODULE Spec2Model ----
(***************************************************************************)
(* The write/read pipeline of the vault storage engine: StoreData and      *)
(* RetrieveData (package datastorage) over the LocalShardStore (package    *)
(* sharding) and the SQLite catalogue (package bucket).                    *)
(*                                                                         *)
(* Byte strings are symbolic terms.  A payload is a token; gzip, the       *)
(* authenticated cipher and the erasure code build records around it, and  *)
(* their inverses take the records apart again and fail on terms that are  *)
(* not well formed.                                                        *)
(***************************************************************************)
EXTENDS Integers, Sequences, FiniteSets, TLC

\* ------------------------------------------------------------------ bounds
MaxWrites == 2      \* StoreData calls in one behaviour
MaxFaults == 2      \* shard files deleted or altered behind the store's back
MaxFiles == 4       \* shard files a store called on its own may hold

\* ------------------------------------------------------- program constants
DataShards == 2
ParityShards == 1
EncryptionKey == "k0"

\* ------------------------------------------------------------ input domains
Writers == {"w1", "w2"}
BucketIDs == {"b1", "b0"}
ObjectIDs == {"o1"}
\* the files a caller uploads: the path and the bytes read from it
Files == {[filePath |-> <<"tmp", "a.txt">>, data |-> "p1"],
          [filePath |-> <<"docs", "b.txt">>, data |-> "p2"]}
LocationLists == {<<"l1", "l2", "l3">>, <<"l1", "l2">>}

NoVersion == 0      \* the empty version id ""

\* --------------------------------------------------------------- strings
Digits == <<"0", "1", "2", "3", "4", "5", "6", "7", "8", "9">>

RECURSIVE Itoa(_)
\* fmt.Sprintf("%d", n) for n >= 0: the decimal digits of n
Itoa(n) == IF n < 10 THEN <<Digits[n + 1]>>
           ELSE Itoa(n \div 10) \o <<Digits[(n % 10) + 1]>>

DigitValue(c) == CHOOSE d \in 0..9 : Digits[d + 1] = c

IsDigit(c) == \E d \in 0..9 : Digits[d + 1] = c

RECURSIVE AtoiValue(_)
AtoiValue(s) == IF Len(s) = 0 THEN 0
                ELSE 10 * AtoiValue(SubSeq(s, 1, Len(s) - 1)) + DigitValue(s[Len(s)])

\* strconv.Atoi on a string without a sign (no key StoreData writes has one):
\* fails on "" and on any non-digit
Atoi(s) == IF Len(s) > 0 /\ \A i \in 1..Len(s) : IsDigit(s[i])
           THEN [ok |-> TRUE, val |-> AtoiValue(s)]
           ELSE [ok |-> FALSE, val |-> 0]

\* strings.TrimPrefix
TrimPrefix(s, prefix) ==
    IF Len(s) >= Len(prefix) /\ SubSeq(s, 1, Len(prefix)) = prefix
    THEN SubSeq(s, Len(prefix) + 1, Len(s))
    ELSE s

\* filepath.Base of a non-empty path: its last component
Base(path) == path[Len(path)]

\* fmt.Sprintf("shard_%d", idx), the key of the placement map
ShardKey(idx) == <<"shard_">> \o Itoa(idx)

\* a read that forgets to strip the prefix before strconv.Atoi
ParseShardKeyNoTrim(shardKey) == Atoi(shardKey)

\* strings.TrimPrefix(shardKey, "shard_") followed by strconv.Atoi
ParseShardKey(shardKey) == Atoi(TrimPrefix(shardKey, <<"shard_">>))

\* The elements of a name between path separators.  Names are opaque strings
\* to the callers; "l1/x" and "x/o1" are the names here that hold a separator.
PathElements(name) ==
    CASE name = "l1/x" -> <<"l1", "x">>
      [] name = "x/o1" -> <<"x", "o1">>
      [] OTHER -> <<name>>

\* filepath.Join(BasePath, location, fmt.Sprintf("%s_shard_%d", objectID, shardIdx)):
\* the elements of the location, then those of the file name, whose last one
\* carries the suffix; for names without a separator this is
\* <<location, objectID_shard_idx>>
ShardPath(objectID, shardIdx, location) ==
    LET elems == PathElements(objectID)
    IN PathElements(location)
         \o SubSeq(elems, 1, Len(elems) - 1)
         \o <<(<<elems[Len(elems)], "_shard_">> \o Itoa(shardIdx))>>

\* ----------------------------------------------------------- collaborators
TotalShards == DataShards + ParityShards

\* gzip.NewWriter / Write / Close
Compress(data) == [gz |-> data]

\* gzip.NewReader / io.Copy
Decompress(compressed) == compressed.gz

\* encryption.Encrypt: authenticated, with a fresh nonce in the envelope
Encrypt(compressed, key, nonce) ==
    [key |-> key, nonce |-> nonce, body |-> compressed, tag |-> TRUE, padded |-> FALSE]

\* the ciphertext as Decode returns it: at the padded length
Padded(cipherText) == [cipherText EXCEPT !.padded = TRUE]

\* what a decoder builds from shards that do not belong together
Garbled == [key |-> EncryptionKey, nonce |-> 0, body |-> Compress("?"), tag |-> FALSE,
            padded |-> TRUE]

\* encryption.Decrypt: fails unless the envelope is authentic under key; the
\* envelope carries its own length, so trailing padding is accepted
DecryptOk(cipherText, key) == cipherText.tag /\ cipherText.key = key

Decrypt(cipherText, key) == cipherText.body

\* erasurecoding.Encode: shard idx of the ciphertext, idx in 0..N-1.  The bytes
\* of a shard file are "whole" as encoded, "flipped" with a bit changed, "cut"
\* short by a write that failed, or "empty" (no bytes at all).
EncodeShard(cipherText, idx) == [ct |-> cipherText, idx |-> idx, form |-> "whole"]

Encode(cipherText) == [i \in 1..TotalShards |-> EncodeShard(cipherText, i - 1)]

\* proofofinclusion.BuildMerkleTree / GetProof
BuildMerkleTree(shards) == [leaves |-> shards]

GetProof(tree, shard) == <<"proof", shard.ct.nonce, shard.idx>>

\* An optional shard slot of the read: <<>> is nil, <<s>> holds the bytes s.
NilSlot == <<>>

PresentSlots(slots) == {i \in DOMAIN slots : slots[i] # NilSlot}

\* A file of length zero.
EmptyFile == [ct |-> Garbled, idx |-> 0, form |-> "empty"]

\* The slots a decoder takes as present: a nil slot and a slot of length zero
\* are both missing shards to it.
FilledSlots(slots) == {i \in PresentSlots(slots) : slots[i][1].form # "empty"}

\* K shards belong together when they are unaltered shards of one ciphertext,
\* each at its own index.
Consistent(slots, chosen) ==
    /\ \A i \in chosen : slots[i][1].form = "whole" /\ slots[i][1].idx = i
    /\ \A i, j \in chosen : slots[i][1].ct = slots[j][1].ct

\* the present shards are not all of one length
UnequalShards(slots) == \E i \in FilledSlots(slots) : slots[i][1].form = "cut"

\* indices < K are the data shards
DataIndices == 0..(DataShards - 1)

\* the shards a decoder rebuilds from: the data shards when all are present
\* (the code is systematic), otherwise K of the present shards; which K is the
\* decoder's choice, so every choice is an outcome
DecodeChoices(slots) ==
    IF DataIndices \subseteq FilledSlots(slots)
    THEN {DataIndices}
    ELSE {c \in SUBSET FilledSlots(slots) : Cardinality(c) = DataShards}

\* erasurecoding.Decode: with fewer than K present shards, or with shards of
\* different lengths, it fails; otherwise it rebuilds the ciphertext from K
\* present shards and does not look at the others.
Decode(slots) ==
    IF Cardinality(FilledSlots(slots)) < DataShards \/ UnequalShards(slots)
    THEN {[err |-> TRUE, ct |-> Garbled]}
    ELSE {IF Consistent(slots, chosen)
          THEN [err |-> FALSE, ct |-> Padded(slots[CHOOSE i \in chosen : TRUE][1].ct)]
          ELSE [err |-> FALSE, ct |-> Garbled]
          : chosen \in DecodeChoices(slots)}

\* ------------------------------------------------------------------- state
VARIABLES
    buckets,     \* table buckets: the bucket ids
    versions,    \* table versions: the rows, in commit order
    objects,     \* table objects: object id -> filename
    store,       \* LocalShardStore: shard path -> file contents
    nextVid,     \* source of fresh version ids (uuid.New)
    nwrites,     \* StoreData calls so far
    faults,      \* shard files deleted or altered so far
    putLog,      \* history: the successful StoreShard calls <<versionID, idx, location, shard>>
    putCount,    \* history: version id -> number of successful StoreShard calls
    written,     \* history: version id -> the arguments of the write that drew it
    overlap,     \* history: the pairs of version ids whose writes ran at the same time
    okWrites,    \* history: version ids whose StoreData returned without error
    wpc,         \* per writer: position in StoreData
    wreq,        \* per writer: the arguments of the call
    wver,        \* per writer: versionID
    wshards,     \* per writer: shards
    widx,        \* per writer: idx of the placement loop
    wlocs,       \* per writer: shardLocations
    wproofs,     \* per writer: proofs
    wroot,       \* per writer: root_version
    wret,        \* per writer: what StoreData returned
    wfailed,     \* history, per writer: the collaborator call of this StoreData that failed
    rpc,         \* reader: position in RetrieveData
    rreq,        \* reader: the arguments of the call
    rmeta,       \* reader: metadata
    rtodo,       \* reader: keys of metadata.ShardLocations not yet visited
    rslots,      \* reader: shards, the N optional slots
    rmissing,    \* reader: missing
    rplain,      \* reader: plainText
    rret,        \* reader: what RetrieveData returned
    rdecoded,    \* history: erasurecoding.Decode was invoked by this read
    rdisturbed,  \* history: a shard file of the object changed since this read began
    rseen        \* history: the writes that had returned success when this read began

wvars == <<wpc, wreq, wver, wshards, widx, wlocs, wproofs, wroot, wret, wfailed>>
dbvars == <<buckets, versions, objects>>
rvars == <<rpc, rreq, rmeta, rtodo, rslots, rmissing, rplain, rret, rdecoded, rseen>>
hvars == <<putLog, putCount, written, overlap>>
vars == <<buckets, versions, objects, store, nextVid, nwrites, faults, putLog,
          putCount, written, overlap, okWrites, wpc, wreq, wver, wshards, widx, wlocs, wproofs, wroot, wret,
          wfailed,
          rpc, rreq, rmeta, rtodo, rslots, rmissing, rplain, rret, rdecoded,
          rdisturbed, rseen>>

NoReq == [bucketID |-> "b0", objectID |-> "o1", filePath |-> <<"tmp", "a.txt">>,
          data |-> "p1", locations |-> <<>>]
NoRead == [objectID |-> "o1", versionID |-> NoVersion]
NoMeta == [BucketID |-> "b0", ObjectID |-> "o1", VersionID |-> NoVersion,
           Filename |-> "", ShardLocations |-> <<>>, Proofs |-> <<>>]
NoReadRet == [err |-> "", data |-> "", filename |-> ""]
EmptySlots == [i \in 0..(TotalShards - 1) |-> NilSlot]
NoRet == [err |-> "", versionID |-> NoVersion, shardLocations |-> <<>>, proofs |-> <<>>]

Init ==
    /\ buckets = {"b1"}
    /\ versions = <<>>
    /\ objects = <<>>
    /\ store = <<>>
    /\ nextVid = 1
    /\ nwrites = 0
    /\ faults = 0
    /\ putLog = {}
    /\ putCount = <<>>
    /\ written = <<>>
    /\ overlap = {}
    /\ okWrites = {}
    /\ wpc = [w \in Writers |-> "idle"]
    /\ wreq = [w \in Writers |-> NoReq]
    /\ wver = [w \in Writers |-> NoVersion]
    /\ wshards = [w \in Writers |-> <<>>]
    /\ widx = [w \in Writers |-> 0]
    /\ wlocs = [w \in Writers |-> <<>>]
    /\ wproofs = [w \in Writers |-> <<>>]
    /\ wroot = [w \in Writers |-> NoVersion]
    /\ wret = [w \in Writers |-> NoRet]
    /\ wfailed = [w \in Writers |-> ""]
    /\ rpc = "idle"
    /\ rreq = NoRead
    /\ rmeta = NoMeta
    /\ rtodo = {}
    /\ rslots = EmptySlots
    /\ rmissing = 0
    /\ rplain = ""
    /\ rret = NoReadRet
    /\ rdecoded = FALSE
    /\ rdisturbed = FALSE
    /\ rseen = {}

\* ------------------------------------------------------------ shard store
\* LocalShardStore.StoreShard, both calls succeeding: the file at the shard's
\* path holds exactly the given bytes
StoreShard(st, objectID, shardIdx, shard, location) ==
    (ShardPath(objectID, shardIdx, location) :> shard) @@ st

\* LocalShardStore.StoreShard returning an error: MkdirAll or the open failed
\* and nothing changed, or WriteFile failed after truncating the file, with
\* none or only some of the bytes written
StoreShardFailed(st, objectID, shardIdx, shard, location) ==
    {st,
     (ShardPath(objectID, shardIdx, location) :> EmptyFile) @@ st,
     (ShardPath(objectID, shardIdx, location) :> [shard EXCEPT !.form = "cut"]) @@ st}

\* LocalShardStore.RetrieveShard: the file's bytes, or an error if ReadFile fails
RetrieveShardOk(st, objectID, shardIdx, location) ==
    ShardPath(objectID, shardIdx, location) \in DOMAIN st

RetrieveShard(st, objectID, shardIdx, location) ==
    st[ShardPath(objectID, shardIdx, location)]

\* a retrieve that opens the file for writing and so creates one that is missing
StoreAfterRetrieveCreate(st, objectID, shardIdx, location) ==
    IF RetrieveShardOk(st, objectID, shardIdx, location) THEN st
    ELSE (ShardPath(objectID, shardIdx, location) :> EmptyFile) @@ st

\* the store after LocalShardStore.RetrieveShard: ioutil.ReadFile writes nothing
StoreAfterRetrieve(st, objectID, shardIdx, location) == st

\* --------------------------------------------------------------- catalogue
\* bucket.GetRootVersion: the latest committed version of the object, or empty
RECURSIVE LastVersionOf(_, _, _)
LastVersionOf(rows, objectID, n) ==
    IF n = 0 THEN NoVersion
    ELSE IF rows[n].objectID = objectID THEN rows[n].versionID
    ELSE LastVersionOf(rows, objectID, n - 1)

GetRootVersion(rows, objectID) == LastVersionOf(rows, objectID, Len(rows))

HasVersion(rows, versionID) == \E n \in 1..Len(rows) : rows[n].versionID = versionID

\* bucket.AddVersion: one new row
AddVersion(rows, bucketID, objectID, versionID, rootVersion, metadata, cipherText) ==
    Append(rows, [bucketID |-> bucketID, objectID |-> objectID,
                  versionID |-> versionID, rootVersion |-> rootVersion,
                  metadata |-> metadata, cipherText |-> cipherText])

\* bucket.AddObject, idempotent: a registered object keeps its row; whether a
\* second registration replaces the filename is the catalogue's choice
AddObject(objs, bucketID, objectID, filename) ==
    IF objectID \in DOMAIN objs
    THEN {objs, [objs EXCEPT ![objectID] = filename]}
    ELSE {(objectID :> filename) @@ objs}

\* bucket.GetObjectMetadata
MetadataFound(rows, objectID, versionID) ==
    \E n \in 1..Len(rows) : rows[n].objectID = objectID /\ rows[n].versionID = versionID

GetObjectMetadata(rows, objectID, versionID) ==
    rows[CHOOSE n \in 1..Len(rows) :
            rows[n].objectID = objectID /\ rows[n].versionID = versionID].metadata

\* the object a shard file belongs to
ObjectOfPath(path) == path[2][1]

\* the shard files that differ between two states of the store
ChangedPaths(st, st2) ==
    {q \in DOMAIN st \cup DOMAIN st2 :
        \/ q \notin DOMAIN st
        \/ q \notin DOMAIN st2
        \/ st[q] # st2[q]}

\* history: a read that has begun sees a file of its object change
Disturb(st2) ==
    rdisturbed' = (rdisturbed \/ (rpc # "idle" /\
                     \E q \in ChangedPaths(store, st2) : ObjectOfPath(q) = rreq.objectID))

\* --------------------------------------------------------------- StoreData
\* the locals of StoreData that a step leaves for the next one
SetLocals(w, shards, idx, locs, proofs, root) ==
    /\ wshards' = [wshards EXCEPT ![w] = shards]
    /\ widx' = [widx EXCEPT ![w] = idx]
    /\ wlocs' = [wlocs EXCEPT ![w] = locs]
    /\ wproofs' = [wproofs EXCEPT ![w] = proofs]
    /\ wroot' = [wroot EXCEPT ![w] = root]

\* the collaborator call whose error an error return of StoreData wraps; ""
\* for the two returns that wrap none
FailedCall(msg) ==
    CASE msg = "failed to check if bucket exists" -> "bucket-exists"
      [] msg = "encryption failed" -> "encrypt"
      [] msg = "erasure coding failed" -> "encode"
      [] msg = "failed to build Merkle tree" -> "merkle"
      [] msg = "failed to store shard" -> "put"
      [] msg = "failed to get proof" -> "proof"
      [] msg = "failed to add version to database" -> "add-version"
      [] msg = "failed to register object in bucket" -> "register-object"
      [] OTHER -> ""

\* return "", nil, nil, fmt.Errorf(...)
ReturnError(w, msg) ==
    /\ wpc' = [wpc EXCEPT ![w] = "done"]
    /\ wret' = [wret EXCEPT ![w] = [NoRet EXCEPT !.err = msg]]
    /\ wfailed' = [wfailed EXCEPT ![w] = FailedCall(msg)]
    /\ SetLocals(w, <<>>, 0, <<>>, <<>>, NoVersion)
    /\ okWrites' = okWrites

\* return versionID, shardLocations, proofs, nil
ReturnOk(w) ==
    /\ wpc' = [wpc EXCEPT ![w] = "done"]
    /\ wret' = [wret EXCEPT ![w] = [err |-> "", versionID |-> wver[w],
                                    shardLocations |-> wlocs[w], proofs |-> wproofs[w]]]
    /\ SetLocals(w, <<>>, 0, <<>>, <<>>, NoVersion)
    /\ okWrites' = okWrites \cup {wver[w]}
    /\ wfailed' = wfailed

PrepareFailures == {"none", "query", "encrypt", "encode", "merkle"}

\* the ciphertext StoreData builds from the payload: compress, then encrypt
CipherOf(data, nonce) == Encrypt(Compress(data), EncryptionKey, nonce)

\* a bucket check that lets every bucket id pass
BucketExistsAlways(bs, bucketID) == TRUE

\* SELECT EXISTS(SELECT 1 FROM buckets WHERE bucket_id = ?)
BucketExists(bs, bucketID) == bucketID \in bs

\* StoreData up to the placement loop: the bucket check, the fresh version id,
\* compress, encrypt, encode, the Merkle tree
StoreData_Prepare(w) ==
    /\ wpc[w] \in {"idle", "done"}
    /\ nwrites < MaxWrites
    /\ nwrites' = nwrites + 1
    /\ \E b \in BucketIDs, o \in ObjectIDs, f \in Files,
          l \in LocationLists, fail \in PrepareFailures :
         /\ wreq' = [wreq EXCEPT ![w] = [bucketID |-> b, objectID |-> o,
                                         filePath |-> f.filePath, data |-> f.data,
                                         locations |-> l]]
         /\ IF fail = "query"
            THEN /\ ReturnError(w, "failed to check if bucket exists")
                 /\ wver' = [wver EXCEPT ![w] = NoVersion]
                 /\ UNCHANGED <<nextVid, written, putCount, overlap>>
            ELSE IF ~BucketExists(buckets, b)
            THEN /\ ReturnError(w, "bucket does not exists")
                 /\ wver' = [wver EXCEPT ![w] = NoVersion]
                 /\ UNCHANGED <<nextVid, written, putCount, overlap>>
            ELSE /\ wver' = [wver EXCEPT ![w] = nextVid]
                 /\ nextVid' = nextVid + 1
                 /\ written' = Append(written, wreq'[w])
                 /\ putCount' = Append(putCount, 0)
                 /\ overlap' = overlap \cup
                        {{nextVid, wver[u]} : u \in {x \in Writers \ {w} :
                                                    wpc[x] \notin {"idle", "done"}}}
                 /\ IF fail = "encrypt" THEN ReturnError(w, "encryption failed")
                    ELSE IF fail = "encode" THEN ReturnError(w, "erasure coding failed")
                    ELSE IF fail = "merkle" THEN ReturnError(w, "failed to build Merkle tree")
                    ELSE /\ wpc' = [wpc EXCEPT ![w] = "put"]
                         /\ SetLocals(w, Encode(CipherOf(f.data, nextVid)), 0, <<>>, <<>>, NoVersion)
                         /\ wfailed' = [wfailed EXCEPT ![w] = ""]
                         /\ UNCHANGED <<wret, okWrites>>
    /\ UNCHANGED <<dbvars, store, faults, putLog, rvars, rdisturbed>>

\* the guard of the placement loop's body: idx >= len(locations)
OutOfLocations(idx, locations) == idx >= Len(locations)

\* a placement loop that sends every shard to the first location
LocationForFirst(idx, locations) == locations[1]

\* location := locations[idx]
LocationFor(idx, locations) == locations[idx + 1]

\* a placement loop that stops after its first shard
AfterPutEarly(idx, shards) == "proofs"

\* where the writer goes after shard idx is placed: range shards ends after the last
AfterPut(idx, shards) == IF idx + 1 < Len(shards) THEN "put" ELSE "proofs"

\* one iteration of "for idx, shard := range shards"
StoreData_Put(w) ==
    /\ wpc[w] = "put"
    /\ LET idx == widx[w]
           shard == wshards[w][idx + 1]
           req == wreq[w]
       IN IF OutOfLocations(idx, req.locations)
          THEN /\ ReturnError(w, "index out of range")
               /\ UNCHANGED <<store, putLog, putCount>>
          ELSE LET location == LocationFor(idx, req.locations)
               IN \/ /\ store' = StoreShard(store, req.objectID, idx, shard, location)
                     /\ putLog' = putLog \cup {<<wver[w], idx, location, shard>>}
                     /\ putCount' = [putCount EXCEPT ![wver[w]] = @ + 1]
                     /\ wpc' = [wpc EXCEPT ![w] = AfterPut(idx, wshards[w])]
                     /\ SetLocals(w, wshards[w], idx + 1,
                                  (ShardKey(idx) :> location) @@ wlocs[w], <<>>, NoVersion)
                     /\ UNCHANGED <<wret, okWrites, wfailed>>
                  \/ /\ store' \in StoreShardFailed(store, req.objectID, idx, shard, location)
                     /\ ReturnError(w, "failed to store shard")
                     /\ UNCHANGED <<putLog, putCount>>
    /\ Disturb(store')
    /\ UNCHANGED <<dbvars, nextVid, nwrites, faults, written, overlap, wreq, wver, rvars>>

\* proofs = append(proofs, proof) for every shard
Proofs(shards) == [i \in 1..Len(shards) |-> GetProof(BuildMerkleTree(shards), shards[i])]

\* root_version, _ := bucket.GetRootVersion(db, objectID): the lookup answers,
\* or it fails and leaves the empty version id
RootVersionRead(rows, objectID) ==
    {[root |-> GetRootVersion(rows, objectID), err |-> FALSE],
     [root |-> NoVersion, err |-> TRUE]}

\* the proofs, the metadata and the root-version lookup
StoreData_Proofs(w) ==
    /\ wpc[w] = "proofs"
    /\ \/ ReturnError(w, "failed to get proof")
       \/ /\ \E r \in RootVersionRead(versions, wreq[w].objectID) :
                /\ SetLocals(w, wshards[w], widx[w], wlocs[w], Proofs(wshards[w]), r.root)
                /\ wfailed' = [wfailed EXCEPT ![w] =
                                  IF r.err THEN "get-root-version" ELSE @]
          /\ wpc' = [wpc EXCEPT ![w] = "addver"]
          /\ UNCHANGED <<wret, okWrites>>
    /\ UNCHANGED <<dbvars, store, nextVid, nwrites, faults, hvars, wreq, wver, rvars,
                   rdisturbed>>

\* bucket.VersionMetadata{...}
Metadata(req, versionID, shardLocations, proofs) ==
    [BucketID |-> req.bucketID, ObjectID |-> req.objectID, VersionID |-> versionID,
     Filename |-> Base(req.filePath), ShardLocations |-> shardLocations,
     Proofs |-> proofs]

\* bucket.AddVersion(db, bucketID, objectID, versionID, root_version, metadata, cipherText)
StoreData_AddVersion(w) ==
    /\ wpc[w] = "addver"
    /\ \/ /\ ReturnError(w, "failed to add version to database")
          /\ UNCHANGED versions
       \/ /\ versions' = AddVersion(versions, wreq[w].bucketID, wreq[w].objectID, wver[w],
                                    wroot[w],
                                    Metadata(wreq[w], wver[w], wlocs[w], wproofs[w]),
                                    wshards[w][1].ct)
          /\ wpc' = [wpc EXCEPT ![w] = "addobj"]
          /\ UNCHANGED <<wshards, widx, wlocs, wproofs, wroot, wret, okWrites, wfailed>>
    /\ UNCHANGED <<buckets, objects, store, nextVid, nwrites, faults, hvars, wreq, wver,
                   rvars, rdisturbed>>

\* bucket.AddObject(db, bucketID, objectID, filename) and the return
StoreData_AddObject(w) ==
    /\ wpc[w] = "addobj"
    /\ \/ /\ ReturnError(w, "failed to register object in bucket")
          /\ UNCHANGED objects
       \/ /\ objects' \in AddObject(objects, wreq[w].bucketID, wreq[w].objectID,
                                    Base(wreq[w].filePath))
          /\ ReturnOk(w)
    /\ UNCHANGED <<buckets, versions, store, nextVid, nwrites, faults, hvars, wreq, wver,
                   rvars, rdisturbed>>

\* ------------------------------------------------------------ RetrieveData
\* a return: the result is the caller's, the locals are gone
ReadReturn(ret) ==
    /\ rpc' = "done"
    /\ rret' = ret
    /\ rmeta' = NoMeta
    /\ rtodo' = {}
    /\ rslots' = EmptySlots
    /\ rmissing' = 0
    /\ rplain' = ""

ReadError(msg) == ReadReturn([NoReadRet EXCEPT !.err = msg])

\* the version ids a caller may ask for
VersionIDs == 1..MaxWrites

\* a fetch loop that ends after its first entry
AfterFetchFirst(todo) == "reconstruct"

\* where the reader goes after an entry of the placement map: the loop ends
\* when every key has been visited
AfterFetch(todo) == IF todo = {} THEN "reconstruct" ELSE "fetch"

\* metadata, err := bucket.GetObjectMetadata(db, objectID, versionID) and the
\* empty slots
RetrieveData_Begin ==
    /\ rpc \in {"idle", "done"}
    /\ \E o \in ObjectIDs, v \in VersionIDs :
         /\ rreq' = [objectID |-> o, versionID |-> v]
         /\ IF MetadataFound(versions, o, v)
            THEN /\ rmeta' = GetObjectMetadata(versions, o, v)
                 /\ rtodo' = DOMAIN GetObjectMetadata(versions, o, v).ShardLocations
                 /\ rpc' = AfterFetch(rtodo')
                 /\ rret' = NoReadRet
                 /\ rslots' = EmptySlots
                 /\ rmissing' = 0
                 /\ rplain' = ""
            ELSE ReadError("failed to retrieve metadata")
    /\ rdecoded' = FALSE
    /\ rdisturbed' = FALSE
    /\ rseen' = okWrites
    /\ UNCHANGED <<dbvars, store, nextVid, nwrites, faults, hvars, okWrites, wvars>>

\* one iteration of "for shardKey, location := range metadata.ShardLocations";
\* the order of a map range is not fixed
RetrieveData_Fetch ==
    /\ rpc = "fetch"
    /\ \E shardKey \in rtodo :
         LET location == rmeta.ShardLocations[shardKey]
             parsed == ParseShardKey(shardKey)
             shardIdx == parsed.val
         IN /\ rtodo' = rtodo \ {shardKey}
            /\ store' = IF parsed.ok
                        THEN StoreAfterRetrieve(store, rreq.objectID, shardIdx, location)
                        ELSE store
            /\ IF ~parsed.ok
               THEN /\ rmissing' = rmissing + 1
                    /\ rslots' = rslots
                    /\ rpc' = AfterFetch(rtodo')
               ELSE IF ~RetrieveShardOk(store, rreq.objectID, shardIdx, location)
               THEN /\ rmissing' = rmissing + 1
                    /\ rslots' = rslots
                    /\ rpc' = AfterFetch(rtodo')
               ELSE IF shardIdx \notin DOMAIN rslots
               THEN /\ rmissing' = rmissing
                    /\ rslots' = rslots
                    /\ rpc' = "panic"
               ELSE /\ rmissing' = rmissing
                    /\ rslots' = [rslots EXCEPT ![shardIdx] =
                                    <<RetrieveShard(store, rreq.objectID, shardIdx, location)>>]
                    /\ rpc' = AfterFetch(rtodo')
    /\ UNCHANGED <<dbvars, nextVid, nwrites, faults, hvars, okWrites, wvars,
                   rreq, rmeta, rplain, rret, rdecoded, rdisturbed, rseen>>

\* a budget check that already refuses M missing shards
InsufficientShardsStrict(missing) == missing >= ParityShards

\* a budget check against the number of data shards
InsufficientShardsDataBudget(missing) == missing > DataShards

\* if missing > erasurecoding.ParityShards
InsufficientShards(missing) == missing > ParityShards

\* the budget check, Decode, Decrypt and the gzip reader
RetrieveData_Reconstruct ==
    /\ rpc = "reconstruct"
    /\ IF InsufficientShards(rmissing)
       THEN /\ ReadError("insufficient shards for reconstruction")
            /\ UNCHANGED rdecoded
       ELSE /\ rdecoded' = TRUE
            /\ \E r \in Decode(rslots) :
                 IF r.err
                 THEN ReadError("erasure decoding failed")
                 ELSE IF ~DecryptOk(r.ct, EncryptionKey)
                 THEN ReadError("decryption failed")
                 ELSE /\ rplain' = Decompress(Decrypt(r.ct, EncryptionKey))
                      /\ rpc' = "filename"
                      /\ UNCHANGED <<rret, rmeta, rtodo, rslots, rmissing>>
    /\ UNCHANGED <<dbvars, store, nextVid, nwrites, faults, hvars, okWrites, wvars,
                   rreq, rdisturbed, rseen>>

\* SELECT filename FROM objects WHERE id = ? and the return
RetrieveData_Filename ==
    /\ rpc = "filename"
    /\ IF rreq.objectID \in DOMAIN objects
       THEN ReadReturn([err |-> "", data |-> rplain, filename |-> objects[rreq.objectID]])
       ELSE ReadError("failed to retrieve filename")
    /\ UNCHANGED <<dbvars, store, nextVid, nwrites, faults, hvars, okWrites, wvars,
                   rreq, rdecoded, rdisturbed, rseen>>

\* ------------------------------------------------------------ environment
\* a shard file is lost
DeleteShard ==
    /\ faults < MaxFaults
    /\ \E q \in DOMAIN store :
         /\ store' = [r \in DOMAIN store \ {q} |-> store[r]]
         /\ Disturb(store')
    /\ faults' = faults + 1
    /\ UNCHANGED <<dbvars, nextVid, nwrites, hvars, okWrites, wvars, rvars>>

\* a bit of a shard file is flipped
TamperShard ==
    /\ faults < MaxFaults
    /\ \E q \in DOMAIN store :
         /\ store[q].form = "whole"
         /\ store' = [store EXCEPT ![q].form = "flipped"]
         /\ Disturb(store')
    /\ faults' = faults + 1
    /\ UNCHANGED <<dbvars, nextVid, nwrites, hvars, okWrites, wvars, rvars>>

\* Concurrent requests: every writer and the reader, their steps interleaved.
Next ==
    \/ \E w \in Writers : StoreData_Prepare(w)
    \/ \E w \in Writers : StoreData_Put(w)
    \/ \E w \in Writers : StoreData_Proofs(w)
    \/ \E w \in Writers : StoreData_AddVersion(w)
    \/ \E w \in Writers : StoreData_AddObject(w)
    \/ RetrieveData_Begin
    \/ RetrieveData_Fetch
    \/ RetrieveData_Reconstruct
    \/ RetrieveData_Filename

Spec == Init /\ [][Next]_vars

\* Shard loss and tampering: one writer at a time, the reader, and shard files
\* deleted or altered at any moment.
LossWriters == {"w1"}

NextLoss ==
    \/ \E w \in LossWriters : StoreData_Prepare(w)
    \/ \E w \in LossWriters : StoreData_Put(w)
    \/ \E w \in LossWriters : StoreData_Proofs(w)
    \/ \E w \in LossWriters : StoreData_AddVersion(w)
    \/ \E w \in LossWriters : StoreData_AddObject(w)
    \/ RetrieveData_Begin
    \/ RetrieveData_Fetch
    \/ RetrieveData_Reconstruct
    \/ RetrieveData_Filename
    \/ DeleteShard
    \/ TamperShard

SpecLoss == Init /\ [][NextLoss]_vars

\* a placement key that strconv.Atoi rejects after the prefix is trimmed
BadKey(shardKey) == <<"bad_">> \o TrimPrefix(shardKey, <<"shard_">>)

\* a placement map with one key replaced
RenameKey(locs, shardKey, newKey) ==
    [k \in (DOMAIN locs \ {shardKey}) \cup {newKey} |->
        IF k = newKey THEN locs[shardKey] ELSE locs[k]]

\* a placement key of a version record is altered in the catalogue
AlterKey ==
    /\ faults < MaxFaults
    /\ \E n \in 1..Len(versions) :
         \E shardKey \in DOMAIN versions[n].metadata.ShardLocations :
            /\ ParseShardKey(shardKey).ok
            /\ versions' = [versions EXCEPT ![n].metadata.ShardLocations =
                               RenameKey(@, shardKey, BadKey(shardKey))]
    /\ faults' = faults + 1
    /\ UNCHANGED <<buckets, objects, store, nextVid, nwrites, hvars, okWrites, wvars,
                   rvars, rdisturbed>>

\* Damaged records: one writer at a time, the reader, shard files deleted and
\* placement keys altered at any moment.
NextKeys ==
    \/ \E w \in LossWriters : StoreData_Prepare(w)
    \/ \E w \in LossWriters : StoreData_Put(w)
    \/ \E w \in LossWriters : StoreData_Proofs(w)
    \/ \E w \in LossWriters : StoreData_AddVersion(w)
    \/ \E w \in LossWriters : StoreData_AddObject(w)
    \/ RetrieveData_Begin
    \/ RetrieveData_Fetch
    \/ RetrieveData_Reconstruct
    \/ RetrieveData_Filename
    \/ DeleteShard
    \/ AlterKey

SpecKeys == Init /\ [][NextKeys]_vars

\* The shard store on its own: a caller of the ShardStore interface puts
\* shards under any object id, shard index and location.
PutObjects == {"o1", "x/o1"}
PutIndices == {1, 11}
PutLocations == {"l1", "l1/x"}
PutShards == {EncodeShard(CipherOf("p1", 1), 0), EncodeShard(CipherOf("p2", 2), 1)}

\* one call of LocalShardStore.StoreShard, returning nil or an error
LocalShardStore_StoreShard(objectID, shardIdx, shard, location) ==
    /\ \/ ShardPath(objectID, shardIdx, location) \in DOMAIN store
       \/ Cardinality(DOMAIN store) < MaxFiles
    /\ \/ store' = StoreShard(store, objectID, shardIdx, shard, location)
       \/ store' \in StoreShardFailed(store, objectID, shardIdx, shard, location)
    /\ UNCHANGED <<dbvars, nextVid, nwrites, faults, hvars, okWrites, wvars, rvars,
                   rdisturbed>>

NextStore ==
    \E o \in PutObjects, i \in PutIndices, s \in PutShards, l \in PutLocations :
        LocalShardStore_StoreShard(o, i, s, l)

SpecStore == Init /\ [][NextStore]_vars

\* ------------------------------------------------------------ properties
\* the catalogue row of a committed version
VersionRow(v) == versions[CHOOSE n \in 1..Len(versions) : versions[n].versionID = v]

ShardIndices == 0..(TotalShards - 1)

\* the shard file the placement map of version v names for index i
ShardFile(v, i) ==
    ShardPath(VersionRow(v).objectID, i, VersionRow(v).metadata.ShardLocations[ShardKey(i)])

\* the shard indices of version v whose file is not in the store
Lost(v) == {i \in ShardIndices : ShardFile(v, i) \notin DOMAIN store}

\* every shard file of version v that is present holds what its write put there
Intact(v) ==
    \A i \in ShardIndices \ Lost(v) :
        store[ShardFile(v, i)] = EncodeShard(VersionRow(v).cipherText, i)

\* a present shard file of version v holds the written shard with a bit flipped
Tampered(v) ==
    \E i \in ShardIndices \ Lost(v) :
        store[ShardFile(v, i)] =
            [EncodeShard(VersionRow(v).cipherText, i) EXCEPT !.form = "flipped"]

\* the read has returned; it asked for a version whose write had returned
\* success before the read began, and no shard file of the object changed since
ReadSettled ==
    /\ rpc = "done"
    /\ rreq.versionID \in rseen
    /\ written[rreq.versionID].objectID = rreq.objectID
    /\ ~rdisturbed

AfterPlacementErrors ==
    {"failed to get proof", "failed to add version to database",
     "failed to register object in bucket"}

\* C1: a write that returns an error after all N shard puts succeeded (proof
\* generation, add-version or register-object failed) leaves no version record
\* with its version id in the catalogue.
C1_FailedWriteLeavesNoVersion ==
    \A w \in Writers :
        (wpc[w] = "done" /\ wret[w].err \in AfterPlacementErrors)
            => ~HasVersion(versions, wver[w])

\* C2: every version record in the catalogue belongs to a write all of whose N
\* shard puts had succeeded, and every entry shard_i -> location of its
\* placement map is a successful put of shard i of that write to that location.
C2_CommitAfterAllPuts ==
    \A n \in 1..Len(versions) :
        LET row == versions[n]
            locs == row.metadata.ShardLocations
        IN /\ putCount[row.versionID] = TotalShards
           /\ \A i \in ShardIndices : \E e \in putLog : e[1] = row.versionID /\ e[2] = i
           /\ \A key \in DOMAIN locs :
                \E i \in ShardIndices :
                    /\ key = ShardKey(i)
                    /\ <<row.versionID, i, locs[key], EncodeShard(row.cipherText, i)>>
                           \in putLog

\* a version is committed while another write has failed at a shard put
C2_Witness ==
    /\ Len(versions) > 0
    /\ \E w \in Writers : wpc[w] = "done" /\ wret[w].err = "failed to store shard"

\* C3: a read that returns without error returns the payload of the write that
\* created the version it asked for.
C3_ReadReturnsStoredBytes ==
    (rpc = "done" /\ rret.err = "")
        => rret.data = written[rreq.versionID].data

\* C4: two concurrent writes to one object draw distinct version ids, and once
\* both have returned success a read of either returns that write's payload.
C4_ConcurrentWritesBothReadable ==
    \A a, b \in Writers :
        (/\ a # b
         /\ wpc[a] = "done" /\ wret[a].err = ""
         /\ wpc[b] = "done" /\ wret[b].err = ""
         /\ wreq[a].objectID = wreq[b].objectID
         /\ {wver[a], wver[b]} \in overlap)
            => /\ wver[a] # wver[b]
               /\ (/\ rpc = "done"
                    /\ rreq = [objectID |-> wreq[a].objectID, versionID |-> wver[a]]
                    /\ {wver[a], wver[b]} \subseteq rseen)
                       => (rret.err = "" /\ rret.data = wreq[a].data)

\* C5: when a write has returned success and the shard files it placed are all
\* present and unchanged, a read of its version id returns the written payload.
C5_RoundTripPayload ==
    (ReadSettled /\ Lost(rreq.versionID) = {} /\ Intact(rreq.versionID))
        => (rret.err = "" /\ rret.data = written[rreq.versionID].data)

\* the second version of an object is read back after it replaced the shard
\* files of the first
C5_Witness ==
    /\ ReadSettled /\ Lost(rreq.versionID) = {} /\ Intact(rreq.versionID)
    /\ rreq.versionID = 2
    /\ HasVersion(versions, 1)
    /\ rret.err = ""

\* C6: a read that returns without error returns as filename the basename of
\* the file path of the write that created the version it asked for.
C6_FilenameOfVersion ==
    (rpc = "done" /\ rret.err = "")
        => rret.filename = Base(written[rreq.versionID].filePath)

\* C7: after a successful write, with at most M of its shard files deleted and
\* the others unchanged, a read returns the written payload.
C7_ErasureTolerance ==
    (/\ ReadSettled
     /\ Cardinality(Lost(rreq.versionID)) <= ParityShards
     /\ Intact(rreq.versionID))
        => (rret.err = "" /\ rret.data = written[rreq.versionID].data)

\* a read succeeds although a shard file of its version is gone
C7_Witness ==
    /\ ReadSettled
    /\ Cardinality(Lost(rreq.versionID)) = ParityShards
    /\ Intact(rreq.versionID)
    /\ rret.err = ""

\* C8: after a successful write, with more than M of its shard files deleted,
\* a read fails with "insufficient shards" and never invokes decode.
C8_ErasureLimit ==
    (ReadSettled /\ Cardinality(Lost(rreq.versionID)) > ParityShards)
        => (rret.err = "insufficient shards for reconstruction" /\ ~rdecoded)

\* a read has failed for a version that lost more than M shard files
C8_Witness ==
    /\ ReadSettled
    /\ Cardinality(Lost(rreq.versionID)) > ParityShards
    /\ rret.err # ""

\* C9: after a successful write, with a bit flipped in a present shard file, a
\* read fails with a proof failure or an authentication failure.
C9_TamperDetected ==
    (ReadSettled /\ Tampered(rreq.versionID))
        => rret.err \in {"proof verification failed", "decryption failed"}

\* C10: a successful write has issued exactly N shard puts, shard i to
\* locations[i], returns N proofs, and returns and records a placement map
\* whose keys are exactly shard_0 .. shard_(N-1).
C10_ShardCount ==
    \A w \in Writers :
        (wpc[w] = "done" /\ wret[w].err = "")
            => /\ putCount[wver[w]] = TotalShards
               /\ {e \in putLog : e[1] = wver[w]}
                     = {<<wver[w], i, wreq[w].locations[i + 1],
                          EncodeShard(VersionRow(wver[w]).cipherText, i)>> : i \in ShardIndices}
               /\ Len(wret[w].proofs) = TotalShards
               /\ DOMAIN wret[w].shardLocations = {ShardKey(i) : i \in ShardIndices}
               /\ \A i \in ShardIndices :
                     wret[w].shardLocations[ShardKey(i)] = wreq[w].locations[i + 1]
               /\ VersionRow(wver[w]).metadata.ShardLocations = wret[w].shardLocations

\* both writers have returned success
C10_Witness ==
    \A w \in Writers : wpc[w] = "done" /\ wret[w].err = "" /\ wver[w] # NoVersion

\* C11: in every state, also while a write is in progress or after it failed,
\* every object that has a version record is registered in the objects table,
\* so a read that finds the version record also finds the filename.
C11_VersionedObjectRegistered ==
    \A n \in 1..Len(versions) : versions[n].objectID \in DOMAIN objects

\* C12: a write whose location list has fewer than N entries fails before the
\* write procedure starts: when it has failed for this reason it has issued no
\* shard put and no shard file holds a shard of it.
C12_ShortLocationsNoPut ==
    \A w \in Writers :
        (/\ wpc[w] = "done"
         /\ wver[w] # NoVersion
         /\ Len(wreq[w].locations) < TotalShards
         /\ wret[w].err = "index out of range")
            => /\ putCount[wver[w]] = 0
               /\ \A q \in DOMAIN store : store[q].ct.nonce # wver[w]

\* LocalShardStore.RetrieveShard as a caller sees it: the bytes, or an error
Get(st, o, i, l) ==
    IF RetrieveShardOk(st, o, i, l) THEN <<RetrieveShard(st, o, i, l)>> ELSE <<>>

\* C14: put and get of the LocalShardStore are inverses.  From every store,
\* after StoreShard(o, i, bytes, l) has succeeded, RetrieveShard(o, i, l)
\* returns those bytes; a shard held under any other (object id, shard index,
\* location) is still returned as it was, whether the StoreShard succeeded or
\* failed; and the same StoreShard once more leaves the store as it is.
C14_PutGetInverse ==
    \A o \in PutObjects, i \in PutIndices, l \in PutLocations, s \in PutShards :
        LET st2 == StoreShard(store, o, i, s, l)
        IN /\ Get(st2, o, i, l) = <<s>>
           /\ StoreShard(st2, o, i, s, l) = st2
           /\ \A o2 \in PutObjects, i2 \in PutIndices, l2 \in PutLocations :
                (<<o2, i2, l2>> # <<o, i, l>> /\ RetrieveShardOk(store, o2, i2, l2))
                    => \A st3 \in {st2} \cup StoreShardFailed(store, o, i, s, l) :
                          Get(st3, o2, i2, l2) = Get(store, o2, i2, l2)

\* the effects of a write on the shard store and the catalogue
Effects == <<store, buckets, versions, objects, putLog, putCount>>

\* C13: a write to a bucket that is not in the catalogue returns at once with
\* "bucket does not exists" (unless the existence query itself failed): it
\* draws no version id, issues no shard put, and leaves the shard store, the
\* version records and the object registrations as they were.
C13_UnknownBucketNoEffects ==
    [][\A w \in Writers :
         (StoreData_Prepare(w) /\ wreq'[w].bucketID \notin buckets)
            => /\ wpc'[w] = "done"
               /\ wret'[w].err \in {"bucket does not exists",
                                    "failed to check if bucket exists"}
               /\ wver'[w] = NoVersion
               /\ Effects' = Effects]_vars

\* a write to an unknown bucket has failed while shards of another write are
\* in the store
C13_Witness ==
    /\ store # <<>>
    /\ \E w \in Writers :
         /\ wpc[w] = "done"
         /\ wreq[w].bucketID \notin buckets
         /\ wret[w].err = "bucket does not exists"

\* the writes that began after the write of version v had returned
LaterWrites(v) == {u \in DOMAIN written : u > v /\ {u, v} \notin overlap}

\* C15: a committed version is read-only.  When the write of a version has
\* returned success and every other write to the object began later and has
\* failed before its metadata commit, a read of the version returns the
\* payload of its write.
C15_CommittedVersionReadable ==
    (/\ ReadSettled
     /\ okWrites = {rreq.versionID}
     /\ DOMAIN written \ {rreq.versionID} \subseteq LaterWrites(rreq.versionID)
     /\ \A u \in LaterWrites(rreq.versionID) : ~HasVersion(versions, u)
     /\ \A w \in Writers : wpc[w] \in {"idle", "done"})
        => (rret.err = "" /\ rret.data = written[rreq.versionID].data)

\* C16: every collaborator failure of StoreData is fatal.  Whenever a
\* collaborator call of a write has failed (bucket-exists, encrypt, encode,
\* Merkle build, a shard put, a proof, get-root-version, add-version,
\* register-object) the write has returned an error; it is at no later call
\* and has not returned success.
C16_CollaboratorFailureFatal ==
    \A w \in Writers :
        wfailed[w] # "" => (wpc[w] = "done" /\ wret[w].err # "")

\* the read is inside the fetch loop or has just left it
Gathering == rpc \in {"fetch", "reconstruct"}

\* C17: a shard fetch that fails and a placement key that does not parse
\* never abort the read.  Every placement entry visited has filled one slot or
\* added one to the missing count, and the loop goes on to the next entry;
\* decode is invoked only when no entry is left; and the read fails with
\* "insufficient shards" exactly when the missing count exceeds M.
C17_FetchFailuresCounted ==
    [][/\ Gathering =>
            rmissing + Cardinality(PresentSlots(rslots)) + Cardinality(rtodo)
                = Cardinality(DOMAIN rmeta.ShardLocations)
       /\ rpc = "fetch" => (rtodo # {} /\ rpc' \in {"fetch", "reconstruct"})
       /\ rpc = "reconstruct" => rtodo = {}
       /\ (rdecoded' /\ ~rdecoded) => (rpc = "reconstruct" /\ rtodo = {})
       /\ (rpc = "reconstruct" /\ rpc' # "reconstruct") =>
            ((rret'.err = "insufficient shards for reconstruction")
                <=> rmissing > ParityShards)]_vars

\* every entry of a placement map with an altered key has been visited: the
\* bad key and a lost shard file are both counted, one shard was fetched
C17_Witness ==
    /\ rpc = "reconstruct"
    /\ rtodo = {}
    /\ \E shardKey \in DOMAIN rmeta.ShardLocations : ~ParseShardKey(shardKey).ok
    /\ rmissing = 2
    /\ Cardinality(PresentSlots(rslots)) = TotalShards - 2

\* the rows committed before row n for the same object
EarlierRows(n) == {m \in 1..(n - 1) : versions[m].objectID = versions[n].objectID}

\* C18: the versions of an object form a chain through root-version.  The
\* first version committed for an object records the empty root-version, and
\* every version committed after another version of the object records the
\* version id of one committed before it for that object.
C18_RootVersionChain ==
    \A n \in 1..Len(versions) :
        IF EarlierRows(n) = {}
        THEN versions[n].rootVersion = NoVersion
        ELSE \E m \in EarlierRows(n) : versions[n].rootVersion = versions[m].versionID

\* RetrieveData is about to invoke erasurecoding.Decode on its slots
AtDecode == rpc = "reconstruct" /\ ~InsufficientShards(rmissing)

\* C19: whenever RetrieveData invokes decode for a version record that
\* StoreData created, every placement key parses to an index in 0..N-1 and at
\* least K of the N slots hold a shard: decode is never called with fewer
\* than K present shards.
C19_DecodeHasEnoughShards ==
    AtDecode =>
        /\ \A shardKey \in DOMAIN rmeta.ShardLocations :
              ParseShardKey(shardKey).ok /\ ParseShardKey(shardKey).val \in ShardIndices
        /\ Cardinality(FilledSlots(rslots)) >= DataShards

\* a step of RetrieveData
RetrieveData_Step ==
    \/ RetrieveData_Begin
    \/ RetrieveData_Fetch
    \/ RetrieveData_Reconstruct
    \/ RetrieveData_Filename

\* C20: a read is read-only.  No step of RetrieveData, on its way to success
\* or to any of its errors, puts a shard or writes to the catalogue: the shard
\* files, the buckets, the version records and the object registrations are
\* after the step what they were before it.
C20_ReadIsReadOnly ==
    [][RetrieveData_Step => Effects' = Effects]_vars

\* a read of a committed version has failed for missing shards, shard files
\* of the object still in the store
C20_Witness ==
    /\ rpc = "done"
    /\ rret.err = "insufficient shards for reconstruction"
    /\ HasVersion(versions, rreq.versionID)
    /\ store # <<>>
====
